---- MODULE Spec2Model ----
(***************************************************************************)
(* Model of the useUnifiedApp binding (src/src/use-unified-app.ts) and of  *)
(* the two adapters it uses (unified-app.ts), together with the two hosts  *)
(* it talks to: the window.openai global of the first host and the App     *)
(* client of the second host.                                              *)
(*                                                                         *)
(* Granularity.  JavaScript is single threaded: a render, a flush of       *)
(* effects with the re-renders it causes, an event listener, a promise     *)
(* continuation and a call of one of the returned setters each run to      *)
(* completion.  Each is one action here, and an action includes the        *)
(* re-render and the effects that its state updates schedule.              *)
(*                                                                         *)
(* Values.  A widget state is null or an object, an object being a         *)
(* function from some of the Keys to a value.  React compares the values   *)
(* of its hooks with Object.is, so an object held by the host also carries *)
(* a reference: two host objects are the same object exactly when fields   *)
(* and reference agree.  The first host follows its contract: it emits     *)
(* openai:set_globals whenever one of its globals changes (and may emit    *)
(* it when one of the others changed, or none).                            *)
(*                                                                         *)
(* Specifications.  Spec is the binding with both hosts; SpecAdapter the   *)
(* calls of the adapters' operations on a connected binding; SpecGlobal    *)
(* the binding with a first host that changes toolOutput and widget (and   *)
(* may appear late); SpecNotify a construction of the first-host adapter   *)
(* and the notifications it delivers; SpecServer the session management    *)
(* of the example server (src/examples/server/server.ts).                  *)
(***************************************************************************)
EXTENDS Integers, Sequences, FiniteSets, TLC

\* ------------------------------------------------------------------ bounds
MaxCalls == 2
MaxRef == 2
MaxEvents == 2
MaxRequests == 2
MaxInstances == 3

\* ------------------------------------------------------------------ values
Refs == 1..MaxRef

NullV == [kind |-> "null"]
UndefV == [kind |-> "undefined"]
ObjV(o) == [kind |-> "object", fields |-> o]
HostObjV(o, r) == [kind |-> "object", fields |-> o, ref |-> r]

\* the value a reader of a host object sees (the reference is not a field)
ValOf(h) == IF h.kind = "object" THEN ObjV(h.fields) ELSE h

\* objects the caller passes to setWidgetState / updateWidgetState
WriteArgs == { [a |-> 1], [a |-> 2, b |-> 1] }

\* objects the first host holds as widgetState
HostObjs == { [a |-> 1], [a |-> 2, b |-> 2] }
HostWidgetStates == {NullV} \cup { HostObjV(o, r) : o \in HostObjs, r \in Refs }

\* values of window.openai.toolOutput
ToolOutputs == { NullV, UndefV, ObjV([a |-> 1, b |-> 1]) }

Themes == {"light", "dark"}

\* values of window.openai.widget: undefined, or an object whose props is
\* undefined, null or an object
WidgetV(p) == [kind |-> "widget", props |-> p]
Widgets == { UndefV, WidgetV(UndefV), WidgetV(NullV), WidgetV(ObjV([a |-> 1])),
             WidgetV(ObjV([a |-> 2, b |-> 1])) }

\* values a throw or a rejection can carry: an Error instance or anything else
Thrown == { [kind |-> "Error", msg |-> "boom"], [kind |-> "string", msg |-> "boom"] }
NoError == [kind |-> "null", msg |-> ""]

NoApp == "null"
UndefCtx == [kind |-> "undefined"]
Ctx(t) == [kind |-> "ctx", theme |-> t]

\* a second-host context: a field the binding copies at connect time (theme)
\* and one it does not (maxHeight); Undef: the field reads undefined
Undef == "undefined"
MaxHeights == {"600"}
MCPCtx(t, h) == [kind |-> "ctx", theme |-> t, maxHeight |-> h]

\* a field a host-context push does not carry; no push, no report yet
Absent == "absent"
NoPush == [theme |-> Absent, maxHeight |-> Absent]
NoReport == [kind |-> "none"]

VARIABLES
  windowOpenai,       \* window.openai is present
  openai,             \* the globals of window.openai
  hostWidget,         \* window.openai.widget
  hostVaries,         \* which globals the first host changes in this run:
                      \* "state" (widgetState, theme) or "props" (toolOutput,
                      \* widget)
  phase,              \* "rendered": first render committed, effects pending;
                      \* "ready": mount effects have run; "unmounted"
  mounted,            \* the `mounted` flag of the initialize effect
  hs,                 \* position of initialize() on the second-host path
  platformRef,        \* platformRef.current
  unifiedApp,         \* useState: "null", "openai" or "mcp" adapter
  isConnected,        \* useState
  error,              \* useState
  hostContext,        \* useState
  localWidgetState,   \* useState
  openaiWidgetState,  \* useOpenAIGlobal("widgetState", null)
  openaiToolOutput,   \* useOpenAIGlobal("toolOutput", undefined)
  openaiTheme,        \* useOpenAIGlobal("theme", "light")
  openaiWidgetProps,  \* useOpenAIGlobal("widget", {})
  subscribed,         \* the useOpenAIGlobal effects found window.openai and
                      \* registered their listeners
  hostCalls,          \* calls received by window.openai.setWidgetState/updateWidgetState:
                      \* how many, and the last one
  adapterCalls,       \* number of calls of unifiedApp.setWidgetState/updateWidgetState
  mcpClientCalls,     \* methods invoked on the second-host client, in order
  nCalls,             \* history: number of calls of the binding's setters
  lastCall,           \* history: the last call of a setter and how it ended
  localSrc,           \* history: what wrote localWidgetState last, and over what
  thrown,             \* history: the value initialize() caught
  failedAt,           \* history: the step of initialize() that threw
  optionsRef,         \* optionsRef.current: the options of the latest render
  opts,               \* the `opts` initialize() read from optionsRef.current
  nClients,           \* number of second-host clients constructed (new App)
  handlers,           \* the callback slots assigned on the second-host client
  lastDelivery,       \* history: the last event the client delivered, and
                      \* the options whose callback its handler called
  reportedCtx,        \* history: what the client's getHostContext() returned
                      \* when connect() resolved
  pushedCtx,          \* history: the host-context pushes received so far,
                      \* merged in arrival order
  adapterCall,        \* history: the last call of an adapter operation or of
                      \* detectPlatform, with what the host did and how it ended
  construction,       \* a call of createOpenAIAdapter by the caller: its
                      \* inputs, how it ended, and the notifications the
                      \* adapter has delivered since, in order
  sessions,           \* example server: serverSessions, per format key
  closed,             \* example server: the instances close() was called on
  nInstances,         \* example server: number of instances created
  reqPc,              \* example server: position of each /mcp request
  reqKey,             \* example server: the format key of each request
  reqFound,           \* history: the expired instance a request found
  reqInstalled        \* history: the instance a request created and stored

vars == << windowOpenai, openai, hostWidget, hostVaries, openaiWidgetProps,
           subscribed, phase, mounted, hs, platformRef, unifiedApp,
           isConnected, error, hostContext, localWidgetState, openaiWidgetState,
           openaiToolOutput, openaiTheme, hostCalls, adapterCalls, mcpClientCalls,
           nCalls, lastCall, localSrc, thrown, failedAt, optionsRef, opts,
           nClients, handlers, lastDelivery, reportedCtx, pushedCtx, adapterCall,
           construction, sessions, closed, nInstances, reqPc, reqKey, reqFound,
           reqInstalled >>

hostVars == << windowOpenai, openai, hostWidget, hostVaries >>
hookVars == << openaiWidgetState, openaiToolOutput, openaiTheme, openaiWidgetProps,
              subscribed >>
connVars == << unifiedApp, isConnected, error, hostContext >>
callVars == << hostCalls, adapterCalls, nCalls, lastCall >>
failVars == << thrown, failedAt >>
optVars == << optionsRef, opts >>
clientVars == << nClients, handlers, lastDelivery, reportedCtx, pushedCtx >>
serverVars == << sessions, closed, nInstances, reqPc, reqKey, reqFound, reqInstalled >>

\* ------------------------------------------------------- pure functions

\* detectPlatform(): "openai" when window.openai is truthy, else "unknown"
detectPlatform_mcpOffFirstHost(present) == IF present THEN "openai" ELSE "mcp"
detectPlatform(present) == IF present THEN "openai" ELSE "unknown"

\* finalPlatform: the platform the binding returns
finalPlatform_ignoresConnection(platform, connected) ==
  IF platform = "openai" THEN "openai" ELSE "unknown"
finalPlatform(platform, connected) ==
  IF platform = "openai" THEN "openai"
  ELSE IF connected THEN "mcp"
  ELSE "unknown"

\* the widgetProps the binding returns: the props of the tracked widget
\* global when truthy, else {}; {} off the first host
widgetProps(platform, tracked) ==
  IF platform = "openai" /\ tracked.kind = "widget" /\ tracked.props.kind = "object"
  THEN tracked.props
  ELSE ObjV(<< >>)

\* the initialProps the binding returns: the tracked toolOutput global on
\* the first host, undefined off it
initialProps_unguarded(platform, tracked) == tracked
initialProps(platform, tracked) ==
  IF platform = "openai" THEN tracked ELSE UndefV

\* { ...prev, ...state }: spreading null adds nothing
OwnKeys(v) == IF v.kind = "object" THEN DOMAIN v.fields ELSE {}
ShallowMerge_dropsPrev(prev, state) == ObjV(state)
ShallowMerge(prev, state) ==
  ObjV([k \in OwnKeys(prev) \cup DOMAIN state |->
          IF k \in DOMAIN state THEN state[k] ELSE prev.fields[k]])

\* the guard of the forward to the adapter in both setters
ForwardsToAdapter_anyPlatform(app, platform) == app # NoApp
ForwardsToAdapter(app, platform) == app # NoApp /\ platform = "openai"

\* the widgetState effect: it runs when the tracked global changed (its
\* dependency) and copies a non-null value into local state
SyncWidgetState_copiesNull(platform, before, after, local) ==
  IF platform = "openai" /\ after # before THEN ValOf(after) ELSE local
SyncWidgetState_onlyFirst(platform, before, after, local) ==
  IF platform = "openai" /\ before = NullV /\ after # NullV
  THEN ValOf(after) ELSE local
SyncWidgetState_defaultsEmpty(platform, before, after, local) ==
  IF platform = "openai" /\ after = NullV /\ local = NullV THEN ObjV(<< >>)
  ELSE IF after # before /\ platform = "openai" /\ after # NullV
  THEN ValOf(after) ELSE local
SyncWidgetState(platform, before, after, local) ==
  IF after # before /\ platform = "openai" /\ after # NullV
  THEN ValOf(after) ELSE local

\* history of the widgetState effect: "mount" or "push" when it wrote local
\* state, with "OverWrite" appended when it replaced a value the caller wrote
SyncSrc(before, after, src, by) ==
  IF after # before /\ after # NullV
  THEN (IF src = "write" THEN by \o "OverWrite" ELSE by)
  ELSE src

\* the error the second-host catch block stores
ConnectError_noError(err) == NoError
ConnectError(err) ==
  IF err.kind = "Error" THEN err ELSE [kind |-> "Error", msg |-> "Failed to connect"]

\* the context the first-host adapter reads from window.openai
OpenAIHostContext(o) == Ctx(o.theme)

\* ------------------------------------------------------------- initial state

EmptyObj == [k \in {} |-> 0]
NoHostCalls == [n |-> 0, last |-> [op |-> "none", arg |-> EmptyObj]]
NoCall == [op |-> "none", arg |-> EmptyObj, captured |-> NoApp, hostThrew |-> FALSE,
           outcome |-> "none"]

\* the options objects successive renders pass to useUnifiedApp
Options == {"A", "B"}

\* the five callback slots of the second-host client
Slots == {"onteardown", "ontoolinput", "ontoolresult", "onerror", "onhostcontextchanged"}
NoDelivery == [slot |-> "none", handled |-> FALSE, opts |-> "none"]

Range(f) == { f[i] : i \in DOMAIN f }

\* JavaScript values that pass through the adapters, tagged with their type;
\* an object is the sequence of its own properties in insertion order
JStr(str) == [t |-> "string", s |-> str]
JNum(num) == [t |-> "number", n |-> num]
JBool(b) == [t |-> "boolean", b |-> b]
JNull == [t |-> "null"]
JUndef == [t |-> "undefined"]
JArr(items) == [t |-> "array", items |-> items]
JObj(props) == [t |-> "object", props |-> props]

\* the three callbacks createOpenAIAdapter notifies
Callbacks == {"onHostContextChanged", "onToolResult", "onToolInput"}

\* values of window.openai.toolInput
ToolInputs == { JUndef, JNull, JStr(""), JObj(<< >>) }

\* createOpenAIAdapter not called yet
NoConstruction ==
  [made |-> "none", given |-> {}, toolOutput |-> JUndef, toolInput |-> JUndef,
   ctx |-> UndefCtx, notified |-> << >>, initial |-> 0, events |-> 0]

\* example server: the format keys, the request slots, an empty map entry
Keys == {"openai", "standard"}
Reqs == 1..MaxRequests
NoSession == [inst |-> 0, expired |-> FALSE]

\* example server after startup: no session, no request
ServerInit ==
  /\ sessions = [k \in Keys |-> NoSession]
  /\ closed = {}
  /\ nInstances = 0
  /\ reqPc = [r \in Reqs |-> "idle"]
  /\ reqKey = [r \in Reqs |-> "none"]
  /\ reqFound = [r \in Reqs |-> 0]
  /\ reqInstalled = [r \in Reqs |-> 0]

\* no adapter operation called yet
NoAdapterCall ==
  [adapter |-> "none", op |-> "none", afterNoOp |-> FALSE, onErrorGiven |-> FALSE,
   hostCalled |-> "none", hostThrew |-> FALSE, input |-> JUndef, onErrors |-> << >>,
   outcome |-> "none", raised |-> NoError, value |-> JUndef]

\* window.openai as the page finds it; without it the record is not read
OpenAIGlobals == [widgetState : HostWidgetStates, toolOutput : ToolOutputs, theme : Themes]
AbsentGlobals == [widgetState |-> NullV, toolOutput |-> UndefV, theme |-> "light"]

\* the state after the first render of useUnifiedApp has been committed
Init ==
  /\ windowOpenai \in BOOLEAN
  /\ openai \in (IF windowOpenai THEN OpenAIGlobals ELSE {AbsentGlobals})
  /\ hostWidget = UndefV
  /\ hostVaries = "state"
  /\ openaiWidgetProps = WidgetV(UndefV)
  /\ subscribed = FALSE
  /\ phase = "rendered"
  /\ mounted = TRUE
  /\ hs = "none"
  /\ platformRef = detectPlatform(windowOpenai)
  /\ unifiedApp = NoApp
  /\ isConnected = FALSE
  /\ error = NoError
  /\ hostContext = UndefCtx
  /\ localWidgetState = NullV
  /\ openaiWidgetState = NullV
  /\ openaiToolOutput = UndefV
  /\ openaiTheme = "light"
  /\ hostCalls = NoHostCalls
  /\ adapterCalls = 0
  /\ mcpClientCalls = << >>
  /\ nCalls = 0
  /\ lastCall = NoCall
  /\ localSrc = "init"
  /\ thrown = NoError
  /\ failedAt = "none"
  /\ optionsRef = "A"
  /\ opts = "none"
  /\ nClients = 0
  /\ handlers = {}
  /\ lastDelivery = NoDelivery
  /\ reportedCtx = NoReport
  /\ pushedCtx = NoPush
  /\ adapterCall = NoAdapterCall
  /\ construction = NoConstruction
  /\ ServerInit

\* ------------------------------------------------------------ mount effects

\* The effects of the first commit on the first host, and the re-render they
\* cause: the six useOpenAIGlobal effects read window.openai, initialize()
\* runs its OpenAI branch (it has no await), then the widgetState effect and
\* the host-context effect of the re-render run.
\*   outcome "ok":     createOpenAIAdapter and adapter.getHostContext return
\*   outcome "setup":  createOpenAIAdapter throws e after its initial
\*                     onHostContextChanged (a caller callback or the
\*                     conversion of toolOutput throws)
\*   outcome "getter": adapter.getHostContext() throws e after the adapter
\*                     and isConnected = true were set in the same batch
MountEffectsOpenAI ==
  /\ phase = "rendered"
  /\ platformRef = "openai"
  /\ windowOpenai
  /\ \E outcome \in {"ok", "setup", "getter"}, e \in Thrown :
       /\ openaiWidgetState' = openai.widgetState
       /\ openaiToolOutput' = openai.toolOutput
       /\ openaiTheme' = openai.theme
       /\ openaiWidgetProps' = hostWidget
       /\ subscribed' = TRUE
       /\ hostContext' = OpenAIHostContext(openai)
       /\ unifiedApp' = IF outcome = "setup" THEN NoApp ELSE "openai"
       /\ isConnected' = (outcome = "ok")
       /\ error' = IF outcome = "ok" THEN NoError ELSE e
       /\ thrown' = IF outcome = "ok" THEN NoError ELSE e
       /\ failedAt' = IF outcome = "ok" THEN "none" ELSE outcome
       /\ localWidgetState' =
            SyncWidgetState(platformRef, openaiWidgetState, openai.widgetState,
                            localWidgetState)
       /\ localSrc' = SyncSrc(openaiWidgetState, openai.widgetState, localSrc, "mount")
  /\ phase' = "ready"
  /\ opts' = optionsRef
  /\ UNCHANGED << hostVars, mounted, hs, platformRef, callVars, mcpClientCalls,
                  optionsRef, clientVars,
                  adapterCall, construction, serverVars >>

\* The effects of the first commit when the render detected no first host:
\* the useOpenAIGlobal effects return at once (or, when window.openai has
\* appeared since the render, read it and subscribe), initialize() starts
\* the dynamic import and yields.  The widgetState effect and the returned
\* props are guarded by the platform of the render.
MountEffectsMCP ==
  /\ phase = "rendered"
  /\ platformRef # "openai"
  /\ phase' = "ready"
  /\ hs' = "importing"
  /\ opts' = optionsRef
  /\ IF windowOpenai
     THEN /\ openaiWidgetState' = openai.widgetState
          /\ openaiToolOutput' = openai.toolOutput
          /\ openaiTheme' = openai.theme
          /\ openaiWidgetProps' = hostWidget
          /\ subscribed' = TRUE
     ELSE UNCHANGED hookVars
  /\ UNCHANGED << hostVars, mounted, platformRef, connVars, localWidgetState,
                  callVars, mcpClientCalls, localSrc, failVars,
                  optionsRef, clientVars,
                  adapterCall, construction, serverVars >>

\* ------------------------------------------------------------- the adapters

\* createOpenAIAdapter(...).setWidgetState / updateWidgetState: one call of
\* the host's method with the same argument, nothing caught
OpenAIAdapterWrite(calls, op, state) ==
  [n |-> calls.n + 1, last |-> [op |-> op, arg |-> state]]

\* createMCPAdapter(...).setWidgetState / updateWidgetState: no-ops that do
\* not touch the client
MCPAdapterWrite(clientCalls, op, state) == clientCalls

\* ---------------------------------------------------------------- setters

\* How a setter ends for its caller: neither the adapter (lines 316-322 of
\* unified-app.ts) nor the setter catches what the host method throws.
SetterOutcome(hostThrows) == IF hostThrows THEN "threw" ELSE "returned"

\* The closure a caller holds was made by some render: its unifiedApp is the
\* current one or, for a setter obtained before the adapter was stored, null.
Captured == {NoApp, unifiedApp}

\* The body shared by setWidgetState (lines 152-157) and updateWidgetState
\* (lines 159-164): write local state, then forward to the adapter, whose
\* exception (if the host method throws) reaches the caller.
Write(op, arg, newLocal, captured, hostThrows) ==
  LET fwd == ForwardsToAdapter(captured, platformRef) IN
  /\ phase \in {"rendered", "ready"}
  /\ nCalls < MaxCalls
  /\ hostThrows => (fwd /\ captured = "openai")
  /\ localWidgetState' = newLocal
  /\ localSrc' = "write"
  /\ nCalls' = nCalls + 1
  /\ adapterCalls' = IF fwd THEN adapterCalls + 1 ELSE adapterCalls
  /\ hostCalls' = IF fwd /\ captured = "openai"
                  THEN OpenAIAdapterWrite(hostCalls, op, arg) ELSE hostCalls
  /\ mcpClientCalls' = IF fwd /\ captured = "mcp"
                       THEN MCPAdapterWrite(mcpClientCalls, op, arg) ELSE mcpClientCalls
  /\ lastCall' = [op |-> op, arg |-> arg, captured |-> captured,
                  hostThrew |-> hostThrows, outcome |-> SetterOutcome(hostThrows)]
  /\ UNCHANGED << hostVars, phase, mounted, hs, platformRef, connVars, hookVars,
                  failVars, optVars, clientVars,
                  adapterCall, construction, serverVars >>

setWidgetState ==
  \E state \in WriteArgs, captured \in Captured, hostThrows \in BOOLEAN :
    Write("setWidgetState", state, ObjV(state), captured, hostThrows)

updateWidgetState ==
  \E state \in WriteArgs, captured \in Captured, hostThrows \in BOOLEAN :
    Write("updateWidgetState", state, ShallowMerge(localWidgetState, state),
          captured, hostThrows)

\* ------------------------------------------------------ first-host events

\* the hook's listeners exist from the mount effects to the unmount
Listening == phase = "ready" /\ subscribed

\* the adapter's listener exists once createOpenAIAdapter has registered it
AdapterListening == platformRef = "openai" /\ phase # "rendered"

\* The onHostContextChanged wrapper the binding passes to the first-host
\* adapter (lines 195-200): while `mounted` it stores the context and calls
\* opts.onHostContextChanged, after the unmount it does neither.
HostContextWrapper(m, prev, ctx) == IF m THEN ctx ELSE prev

\* The first host sets some of its globals and dispatches openai:set_globals.
\* Listeners in registration order: the handleChange of each useOpenAIGlobal,
\* then handleGlobalsChange of the adapter (it stays registered after the
\* unmount, its callback is guarded by `mounted`); then the re-render with
\* the widgetState effect and the host-context effect.
GlobalsChanged ==
  /\ windowOpenai
  /\ \E ws \in (IF hostVaries = "state" THEN HostWidgetStates ELSE {openai.widgetState}),
        th \in (IF hostVaries = "state" THEN Themes ELSE {openai.theme}),
        to \in (IF hostVaries = "props" THEN ToolOutputs ELSE {openai.toolOutput}),
        w \in (IF hostVaries = "props" THEN Widgets ELSE {hostWidget}) :
       /\ openai' = [openai EXCEPT !.widgetState = ws, !.theme = th, !.toolOutput = to]
       /\ hostWidget' = w
  /\ IF Listening
     THEN /\ openaiWidgetState' = openai'.widgetState
          /\ openaiToolOutput' = openai'.toolOutput
          /\ openaiTheme' = openai'.theme
          /\ openaiWidgetProps' = hostWidget'
          /\ subscribed' = subscribed
          /\ localWidgetState' =
               SyncWidgetState(platformRef, openaiWidgetState, openaiWidgetState',
                               localWidgetState)
          /\ localSrc' = IF platformRef = "openai"
                         THEN SyncSrc(openaiWidgetState, openaiWidgetState', localSrc,
                                      "push")
                         ELSE localSrc
     ELSE UNCHANGED << hookVars, localWidgetState, localSrc >>
  /\ hostContext' = IF AdapterListening
                    THEN HostContextWrapper(mounted, hostContext,
                                            OpenAIHostContext(openai'))
                    ELSE hostContext
  /\ UNCHANGED << windowOpenai, hostVaries, phase, mounted, hs, platformRef,
                  unifiedApp, isConnected, error, callVars, mcpClientCalls,
                  failVars, optVars, clientVars,
                  adapterCall, construction, serverVars >>

\* ------------------------------------------------- second-host handshake

\* the catch block of the second-host branch (lines 275-281)
CatchMCP(e, step) ==
  /\ hs' = "failed"
  /\ thrown' = e
  /\ failedAt' = step
  /\ error' = IF mounted THEN ConnectError(e) ELSE error
  /\ isConnected' = IF mounted THEN FALSE ELSE isConnected

\* The statements of the second-host branch after the import, in source
\* order (lines 225-257): the construction, the five assignments, connect.
MCPBranchSteps_connectEarly ==
  << "construct", "onteardown", "ontoolinput", "ontoolresult", "onerror",
     "connect", "onhostcontextchanged" >>
MCPBranchSteps ==
  << "construct", "onteardown", "ontoolinput", "ontoolresult", "onerror",
     "onhostcontextchanged", "connect" >>

\* the position of a statement, and the slots assigned before a statement
StepIndex(steps, step) == CHOOSE i \in 1..Len(steps) : steps[i] = step
AssignedBefore(steps, step) ==
  { steps[i] : i \in 1..(StepIndex(steps, step) - 1) } \cap Slots

\* The dynamic import settles.  On success the transport and the client are
\* constructed, the handlers assigned and connect() called (lines 223-257);
\* the statements after connect() wait for it to resolve.
ImportSettles ==
  /\ hs = "importing"
  /\ \E r \in {"ok", "import", "construct"}, e \in Thrown :
       IF r = "ok"
       THEN /\ hs' = "connecting"
            /\ nClients' = nClients + 1
            /\ handlers' = AssignedBefore(MCPBranchSteps, "connect")
            /\ mcpClientCalls' = Append(mcpClientCalls, "connect")
            /\ UNCHANGED << error, isConnected, failVars >>
       ELSE /\ CatchMCP(e, r)
            /\ UNCHANGED << mcpClientCalls, nClients, handlers >>
  /\ UNCHANGED << hostVars, phase, mounted, platformRef, unifiedApp, hostContext,
                  localWidgetState, hookVars, callVars, localSrc, optVars,
                  lastDelivery, reportedCtx, pushedCtx,
                  adapterCall, construction, serverVars >>

\* contexts the second-host client can report at connect time (null: none)
MCPContexts ==
  {UndefCtx} \cup { MCPCtx(t, h) : t \in Themes \cup {Undef}, h \in MaxHeights \cup {Undef} }

\* the context the binding stores at connect time (lines 264-269): theme,
\* displayMode, locale and safeAreaInsets of what the client returned
ConnectCtx(ctx) == MCPCtx(ctx.theme, Undef)

\* connect() settles (lines 257-281).  After a resolve nothing happens when
\* the view was unmounted; otherwise the adapter is stored, isConnected set
\* and the client asked for its context, a call that returns or throws.
ConnectSettles ==
  /\ hs = "connecting"
  /\ \E r \in {"ok", "connect", "getHostContext"}, e \in Thrown, ctx \in MCPContexts :
       CASE r = "ok" ->
              /\ hs' = "connected"
              /\ unifiedApp' = IF mounted THEN "mcp" ELSE unifiedApp
              /\ isConnected' = IF mounted THEN TRUE ELSE isConnected
              /\ hostContext' = IF mounted /\ ctx # UndefCtx THEN ConnectCtx(ctx)
                                ELSE hostContext
              /\ reportedCtx' = IF mounted THEN ctx ELSE reportedCtx
              /\ mcpClientCalls' = IF mounted THEN Append(mcpClientCalls, "getHostContext")
                                   ELSE mcpClientCalls
              /\ UNCHANGED << error, failVars >>
         [] r = "connect" ->
              /\ CatchMCP(e, r)
              /\ UNCHANGED << unifiedApp, hostContext, mcpClientCalls, reportedCtx >>
         [] r = "getHostContext" ->
              /\ mounted
              /\ CatchMCP(e, r)
              /\ unifiedApp' = "mcp"
              /\ mcpClientCalls' = Append(mcpClientCalls, "getHostContext")
              /\ UNCHANGED << hostContext, reportedCtx >>
  /\ handlers' = handlers \cup (Range(MCPBranchSteps) \cap Slots)
  /\ UNCHANGED << hostVars, phase, mounted, platformRef, localWidgetState, hookVars,
                  callVars, localSrc, optVars, nClients, lastDelivery, pushedCtx,
                  adapterCall, construction, serverVars >>

\* ---------------------------------------------------- second-host events

\* the params of a host-context-changed notification: some of the fields
CtxParams ==
  { [theme |-> t, maxHeight |-> h] :
      t \in Themes \cup {Absent}, h \in MaxHeights \cup {Absent} } \ {NoPush}

\* one field of {...prev, ...params}
MergeField(prev, params, f) ==
  IF params[f] # Absent THEN params[f]
  ELSE IF prev = UndefCtx THEN Undef
  ELSE prev[f]

\* {...prev, ...params} of the onhostcontextchanged handler (line 250)
MergeCtx(prev, params) ==
  MCPCtx(MergeField(prev, params, "theme"), MergeField(prev, params, "maxHeight"))

\* the pushes so far with one more merged over them
MergePush(pushed, params) ==
  [f \in {"theme", "maxHeight"} |-> IF params[f] # Absent THEN params[f] ELSE pushed[f]]

\* The error state after the client's onerror handler ran (lines 242-245):
\* it logs and calls opts.onError, setError is not called.
OnErrorState_setsError(err, prev) == ConnectError(err)
OnErrorState(err, prev) == prev

\* The onhostcontextchanged handler (lines 247-255): while `mounted` it merges
\* the push into hostContext and calls opts.onHostContextChanged, after the
\* unmount it does neither.
HostContextHandler_unguarded(m, prev, params) == MergeCtx(prev, params)
HostContextHandler(m, prev, params) == IF m THEN MergeCtx(prev, params) ELSE prev

\* whether the handler of a slot calls the caller's callback
CallsBack(slot, m) == slot = "onhostcontextchanged" => m

\* The connected client delivers an event to one of its callback slots; a
\* slot nothing was assigned to drops it.  The client is live from connect()
\* until it is closed.  onteardown, ontoolinput and ontoolresult call the
\* callbacks of `opts` (lines 229-240) and touch no state of the binding.
ClientDelivers ==
  /\ hs \in {"connecting", "connected"}
  /\ "close" \notin Range(mcpClientCalls)
  /\ \E slot \in Slots, e \in Thrown, params \in CtxParams :
       LET handled == slot \in handlers IN
       /\ lastDelivery' = [slot |-> slot, handled |-> handled,
                           opts |-> IF handled /\ CallsBack(slot, mounted)
                                    THEN opts ELSE "none"]
       /\ error' = IF handled /\ slot = "onerror"
                   THEN OnErrorState(e, error) ELSE error
       /\ hostContext' = IF handled /\ slot = "onhostcontextchanged"
                         THEN HostContextHandler(mounted, hostContext, params)
                         ELSE hostContext
       /\ pushedCtx' = IF handled /\ slot = "onhostcontextchanged" /\ mounted
                       THEN MergePush(pushedCtx, params) ELSE pushedCtx
  /\ UNCHANGED << hostVars, phase, mounted, hs, platformRef, unifiedApp, isConnected,
                  localWidgetState, hookVars, callVars, mcpClientCalls, localSrc,
                  failVars, optVars, nClients, handlers, reportedCtx,
                  adapterCall, construction, serverVars >>

\* ----------------------------------------------------------------- unmount

\* The cleanups: each useOpenAIGlobal removes its listener, the initialize
\* effect clears `mounted` (lines 287-290).
Unmount ==
  /\ phase = "ready"
  /\ phase' = "unmounted"
  /\ mounted' = FALSE
  /\ UNCHANGED << hostVars, hs, platformRef, connVars, localWidgetState, hookVars,
                  callVars, mcpClientCalls, localSrc, failVars, optVars, clientVars,
                  adapterCall, construction, serverVars >>

\* ---------------------------------------------------------------- re-render

\* Whether React runs the initialize effect again after a render: its
\* dependency array is [platform] (line 291), compared with Object.is.
InitEffectReruns_everyRender(depBefore, depAfter) == TRUE
InitEffectReruns(depBefore, depAfter) == depBefore # depAfter

\* A later render of the owning view, with the same or another options
\* object, or caused by one of the binding's own state updates: line 141
\* stores the options, `platform` is read from platformRef (line 121), and
\* the initialize effect runs again only if its dependency changed.
Rerender ==
  /\ phase = "ready"
  /\ \E o \in Options : optionsRef' = o
  /\ platformRef' = platformRef
  /\ IF InitEffectReruns(platformRef, platformRef') /\ platformRef' # "openai"
     THEN /\ hs' = "importing"
          /\ mounted' = TRUE
          /\ opts' = optionsRef'
     ELSE UNCHANGED << hs, mounted, opts >>
  /\ UNCHANGED << hostVars, phase, connVars, localWidgetState, hookVars, callVars,
                  mcpClientCalls, localSrc, failVars, clientVars,
                  adapterCall, construction, serverVars >>

Next ==
  \/ MountEffectsOpenAI
  \/ MountEffectsMCP
  \/ setWidgetState
  \/ updateWidgetState
  \/ GlobalsChanged
  \/ ImportSettles
  \/ ConnectSettles
  \/ Unmount
  \/ Rerender
  \/ ClientDelivers

Spec == Init /\ [][Next]_vars

\* what the binding returns as `platform`
Platform == finalPlatform(platformRef, isConnected)

TypeOK ==
  /\ phase \in {"rendered", "ready", "unmounted"}
  /\ hs \in {"none", "importing", "connecting", "connected", "failed"}
  /\ platformRef \in {"openai", "unknown"}
  /\ unifiedApp \in {NoApp, "openai", "mcp"}
  /\ isConnected \in BOOLEAN
  /\ nCalls \in 0..MaxCalls
  /\ optionsRef \in Options
  /\ opts \in Options \cup {"none"}
  /\ nClients \in Nat
  /\ handlers \subseteq Slots
  /\ lastDelivery.slot \in Slots \cup {"none"}
  /\ hostWidget \in Widgets
  /\ openaiWidgetProps \in Widgets
  /\ hostVaries \in {"state", "props"}
  /\ subscribed \in BOOLEAN

\* ------------------------------------------------- JavaScript conversions

Digits == << "0", "1", "2", "3", "4", "5", "6", "7", "8", "9" >>

\* the decimal digits of a natural number
RECURSIVE NatToString(_)
NatToString(n) ==
  IF n < 10 THEN Digits[n + 1]
  ELSE NatToString(n \div 10) \o Digits[(n % 10) + 1]

\* Number.prototype.toString for integers
NumberToString(n) == IF n < 0 THEN "-" \o NatToString(-n) ELSE NatToString(n)

\* Array.prototype.join
RECURSIVE Join(_, _)
Join(strs, sep) ==
  IF Len(strs) = 0 THEN ""
  ELSE IF Len(strs) = 1 THEN strs[1]
  ELSE strs[1] \o sep \o Join(Tail(strs), sep)

\* String(v)
RECURSIVE JSString(_)
JSString(v) ==
  CASE v.t = "string" -> v.s
    [] v.t = "number" -> NumberToString(v.n)
    [] v.t = "boolean" -> (IF v.b THEN "true" ELSE "false")
    [] v.t = "null" -> "null"
    [] v.t = "undefined" -> "undefined"
    [] v.t = "array" ->
         Join([i \in DOMAIN v.items |->
                 IF v.items[i].t \in {"null", "undefined"} THEN ""
                 ELSE JSString(v.items[i])], ",")
    [] v.t = "object" -> "[object Object]"

\* the own properties JSON.stringify writes: those whose value is not undefined
RECURSIVE Defined(_)
Defined(props) ==
  IF Len(props) = 0 THEN << >>
  ELSE IF Head(props)[2].t = "undefined" THEN Defined(Tail(props))
  ELSE << Head(props) >> \o Defined(Tail(props))

\* JSON.stringify(v) of a value that is not undefined (strings here hold no
\* character that needs escaping)
RECURSIVE Stringify(_)
Stringify(v) ==
  CASE v.t = "string" -> "\"" \o v.s \o "\""
    [] v.t = "number" -> NumberToString(v.n)
    [] v.t = "boolean" -> (IF v.b THEN "true" ELSE "false")
    [] v.t = "null" -> "null"
    [] v.t = "array" ->
         "[" \o Join([i \in DOMAIN v.items |->
                        IF v.items[i].t = "undefined" THEN "null"
                        ELSE Stringify(v.items[i])], ",") \o "]"
    [] v.t = "object" ->
         LET ps == Defined(v.props) IN
         "{" \o Join([i \in DOMAIN ps |->
                        "\"" \o ps[i][1] \o "\":" \o Stringify(ps[i][2])], ",") \o "}"

\* truthiness, typeof v === "object", k in v, v[k], Array.isArray
Truthy(v) ==
  CASE v.t \in {"null", "undefined"} -> FALSE
    [] v.t = "string" -> v.s # ""
    [] v.t = "number" -> v.n # 0
    [] v.t = "boolean" -> v.b
    [] OTHER -> TRUE
TypeofObject(v) == v.t \in {"object", "array", "null"}
HasKey(v, k) == v.t = "object" /\ \E i \in DOMAIN v.props : v.props[i][1] = k
Get(v, k) == v.props[CHOOSE i \in DOMAIN v.props : v.props[i][1] = k][2]
IsArray(v) == v.t = "array"

\* { type: "text", text: str } and { content: [that] }
TextPart(str) == JObj(<< << "type", JStr("text") >>, << "text", JStr(str) >> >>)
TextResult(str) == JObj(<< << "content", JArr(<< TextPart(str) >>) >> >>)

\* convertOpenAIToolOutput (unified-app.ts lines 367-397)
convertOpenAIToolOutput_textFirst(output) ==
  IF output.t = "string" THEN TextResult(output.s)
  ELSE IF Truthy(output) /\ TypeofObject(output)
  THEN IF HasKey(output, "text")
       THEN TextResult(JSString(Get(output, "text")))
       ELSE IF HasKey(output, "content") /\ IsArray(Get(output, "content"))
       THEN output
       ELSE TextResult(Stringify(output))
  ELSE TextResult(JSString(output))
convertOpenAIToolOutput(output) ==
  IF output.t = "string" THEN TextResult(output.s)
  ELSE IF Truthy(output) /\ TypeofObject(output)
  THEN IF HasKey(output, "content") /\ IsArray(Get(output, "content"))
       THEN output
       ELSE IF HasKey(output, "text")
       THEN TextResult(JSString(Get(output, "text")))
       ELSE TextResult(Stringify(output))
  ELSE TextResult(JSString(output))

\* what window.openai.callTool (and the other value-returning host methods)
\* may resolve with
HostResults ==
  { JStr("42"), JStr(""), JNum(42), JNum(0), JBool(TRUE), JNull, JUndef,
    JArr(<< JNum(1), JNull, JStr("a") >>),
    JObj(<< >>),
    JObj(<< << "a", JNum(1) >>, << "u", JUndef >>, << "s", JStr("x") >> >>),
    JObj(<< << "text", JStr("42") >> >>),
    JObj(<< << "text", JNum(42) >> >>),
    JObj(<< << "text", JArr(<< JNum(-7), JUndef, JNum(10) >>) >> >>),
    JObj(<< << "text", JObj(<< >>) >> >>),
    JObj(<< << "content", JArr(<< TextPart("42") >>) >> >>),
    JObj(<< << "content", JArr(<< >>) >>, << "text", JStr("t") >> >>),
    JObj(<< << "text", JStr("t") >>, << "content", JArr(<< TextPart("c") >>) >> >>),
    JObj(<< << "content", JStr("c") >> >>),
    JObj(<< << "content", JStr("c") >>, << "text", JStr("t") >> >>) }

\* ------------------------------------------------- the first-host adapter

\* the operations of createOpenAIAdapter that call a method of window.openai
OpenAIForwardOps ==
  { "callServerTool", "sendMessage", "openLink", "setWidgetState", "updateWidgetState",
    "requestDisplayMode", "requestClose", "notifyIntrinsicHeight", "uploadFile",
    "getFileDownloadUrl", "setOpenInAppUrl", "share", "callCompletion", "streamCompletion" }

\* the method of window.openai an operation calls
OpenAIHostMethod(op) ==
  CASE op = "callServerTool" -> "callTool"
    [] op = "sendMessage" -> "sendFollowUpMessage"
    [] op = "openLink" -> "openExternal"
    [] OTHER -> op

\* the operations that return what the host method returned
OpenAIPassThroughOps == { "uploadFile", "getFileDownloadUrl", "callCompletion", "streamCompletion" }

\* the operations whose result depends on what the host method returned
OpenAIValueOps == {"callServerTool"} \cup OpenAIPassThroughOps

\* What an operation does with an exception of the host method: catch it,
\* call options.onError and rethrow (callServerTool, lines 250-260); catch it,
\* call options.onError and return { isError: true } (sendMessage, openLink,
\* lines 262-295); or no try/catch at all (lines 316-358).
OpenAICatch_flagRethrows(op) ==
  CASE op \in {"callServerTool", "sendMessage", "openLink"} -> "rethrow"
    [] OTHER -> "none"
OpenAICatch(op) ==
  CASE op = "callServerTool" -> "rethrow"
    [] op \in {"sendMessage", "openLink"} -> "flag"
    [] OTHER -> "none"

\* { isError: b }
IsErrorResult(b) == JObj(<< << "isError", JBool(b) >> >>)

\* One call of an operation of the first-host adapter.  hasText: the message
\* given to sendMessage has a text part with a non-empty text (otherwise the
\* host is not called); hostThrows: the host method throws or rejects with e;
\* result: what it returns otherwise; onErrorGiven: options.onError was
\* passed to createOpenAIAdapter (a callback that returns).
OpenAIAdapterOp(op, hasText, hostThrows, e, result, onErrorGiven) ==
  LET called == op # "sendMessage" \/ hasText
      threw == called /\ hostThrows
      catch == OpenAICatch(op)
  IN  [adapter |-> "openai", op |-> op, afterNoOp |-> FALSE,
       onErrorGiven |-> onErrorGiven,
       hostCalled |-> IF called THEN OpenAIHostMethod(op) ELSE "none",
       hostThrew |-> threw,
       input |-> IF called /\ ~threw /\ op \in OpenAIValueOps THEN result ELSE JUndef,
       onErrors |-> IF threw /\ catch # "none" /\ onErrorGiven THEN << e >> ELSE << >>,
       outcome |-> IF threw /\ catch # "flag" THEN "threw" ELSE "returned",
       raised |-> IF threw THEN e ELSE NoError,
       value |-> IF threw /\ catch # "flag" THEN JUndef
                 ELSE IF catch = "flag" THEN IsErrorResult(threw)
                 ELSE IF op = "callServerTool" THEN convertOpenAIToolOutput(result)
                 ELSE IF op \in OpenAIPassThroughOps THEN result
                 ELSE JUndef]

\* everything but the history of adapter calls and the client's call log
bindingVars ==
  << windowOpenai, openai, hostWidget, hostVaries, openaiWidgetProps, subscribed,
     phase, mounted, hs, platformRef, unifiedApp, isConnected,
     error, hostContext, localWidgetState, openaiWidgetState, openaiToolOutput,
     openaiTheme, hostCalls, adapterCalls, nCalls, lastCall, localSrc, thrown,
     failedAt, optionsRef, opts, nClients, handlers, lastDelivery, reportedCtx,
     pushedCtx >>

\* the caller invokes an operation of the adapter the binding returned as app
OpenAIAdapterCall ==
  /\ unifiedApp = "openai"
  /\ \E op \in OpenAIForwardOps, onErrorGiven \in BOOLEAN, hostThrows \in BOOLEAN :
     \E hasText \in (IF op = "sendMessage" /\ ~hostThrows THEN BOOLEAN ELSE {TRUE}),
        e \in (IF hostThrows THEN Thrown ELSE {NoError}),
        result \in (IF ~hostThrows /\ op \in OpenAIValueOps THEN HostResults
                    ELSE {JUndef}) :
       adapterCall' = OpenAIAdapterOp(op, hasText, hostThrows, e, result, onErrorGiven)
  /\ UNCHANGED << bindingVars, mcpClientCalls, construction, serverVars >>

\* ------------------------------------------------ the second-host adapter

\* the operations of createMCPAdapter by what their bodies do (lines 409-492)
MCPForwardOps == { "callServerTool", "sendMessage", "sendLog", "openLink", "getHostContext" }
MCPGetterOps ==
  { "getToolInput", "getToolOutput", "getToolResponseMetadata", "getWidgetState",
    "getWidgetProps" }
MCPNoOps ==
  { "setWidgetState", "updateWidgetState", "requestDisplayMode", "requestClose",
    "notifyIntrinsicHeight", "setOpenInAppUrl" }
MCPUnsupportedOps ==
  { "uploadFile", "getFileDownloadUrl", "share", "callCompletion", "streamCompletion" }

\* the Error an unsupported operation throws (lines 471-492)
MCPUnsupported_generic(op) == [kind |-> "Error", msg |-> "Not supported on MCP platform"]
MCPUnsupported(op) ==
  [kind |-> "Error",
   msg |-> CASE op = "uploadFile" -> "uploadFile is not supported on MCP platform"
             [] op = "getFileDownloadUrl" ->
                  "getFileDownloadUrl is not supported on MCP platform"
             [] op = "share" -> "share is not supported on MCP platform"
             [] op = "callCompletion" -> "callCompletion is not supported on MCP platform"
             [] op = "streamCompletion" ->
                  "streamCompletion is not supported on MCP platform"]

\* what the constant getters return (lines 439-448)
MCPGetterValue_lastWrite(op, afterNoOp) ==
  CASE op = "getToolOutput" -> JNull
    [] op = "getWidgetState" -> (IF afterNoOp THEN JObj(<< >>) ELSE JNull)
    [] OTHER -> JObj(<< >>)
MCPGetterValue(op, afterNoOp) ==
  CASE op \in {"getToolOutput", "getWidgetState"} -> JNull
    [] OTHER -> JObj(<< >>)

\* the longest log of client calls followed
MaxClientCalls == 4

\* One call of an operation of the second-host adapter.  A forwarding
\* operation calls the client's method of the same name, whose exception is
\* not caught; the others never touch the client.
MCPAdapterOp(op, clientThrows, e, prev) ==
  LET fwd == op \in MCPForwardOps
      threw == fwd /\ clientThrows
      seenNoOp == prev.adapter = "mcp" /\ (prev.afterNoOp \/ prev.op \in MCPNoOps)
  IN  [adapter |-> "mcp", op |-> op, afterNoOp |-> seenNoOp, onErrorGiven |-> FALSE,
       hostCalled |-> IF fwd THEN op ELSE "none",
       hostThrew |-> threw,
       input |-> JUndef,
       onErrors |-> << >>,
       outcome |-> IF threw \/ op \in MCPUnsupportedOps THEN "threw" ELSE "returned",
       raised |-> IF threw THEN e
                  ELSE IF op \in MCPUnsupportedOps THEN MCPUnsupported(op)
                  ELSE NoError,
       value |-> IF op \in MCPGetterOps THEN MCPGetterValue(op, seenNoOp) ELSE JUndef]

MCPAdapterCall ==
  /\ unifiedApp = "mcp"
  /\ \E op \in MCPForwardOps \cup MCPGetterOps \cup MCPNoOps \cup MCPUnsupportedOps,
        clientThrows \in BOOLEAN :
     \E e \in (IF clientThrows THEN Thrown ELSE {NoError}) :
       /\ clientThrows => op \in MCPForwardOps
       /\ op \in MCPForwardOps => Len(mcpClientCalls) < MaxClientCalls
       /\ adapterCall' = MCPAdapterOp(op, clientThrows, e, adapterCall)
       /\ mcpClientCalls' = IF op \in MCPForwardOps
                            THEN Append(mcpClientCalls, op) ELSE mcpClientCalls
  /\ UNCHANGED << bindingVars, construction, serverVars >>

\* ---------------------------------------------------------- detectPlatform

\* the caller invokes detectPlatform(): it reads window.openai, nothing else
DetectPlatformCall ==
  /\ adapterCall' = [NoAdapterCall EXCEPT !.op = "detectPlatform",
                                          !.outcome = "returned",
                                          !.value = JStr(detectPlatform(windowOpenai))]
  /\ UNCHANGED << bindingVars, mcpClientCalls, construction, serverVars >>

\* -------------------------------------------------------- createUnifiedApp

\* createUnifiedApp (unified-app.ts lines 515-544): on the first host the
\* adapter is created inside a try block whose catch returns the exception
\* as `error`; off the first host nothing is created.
createUnifiedApp_unknownOnFailure(present, setupThrows, e) ==
  IF detectPlatform(present) = "openai" /\ ~setupThrows
  THEN [app |-> "openai", isConnected |-> TRUE, error |-> NoError, platform |-> "openai"]
  ELSE [app |-> NoApp, isConnected |-> FALSE,
        error |-> IF detectPlatform(present) = "openai" THEN e ELSE NoError,
        platform |-> "unknown"]
createUnifiedApp(present, setupThrows, e) ==
  IF detectPlatform(present) = "openai"
  THEN IF setupThrows
       THEN [app |-> NoApp, isConnected |-> FALSE, error |-> e, platform |-> "openai"]
       ELSE [app |-> "openai", isConnected |-> TRUE, error |-> NoError,
             platform |-> "openai"]
  ELSE [app |-> NoApp, isConnected |-> FALSE, error |-> NoError, platform |-> "unknown"]

\* The caller invokes createUnifiedApp(options); on the first host
\* createOpenAIAdapter returns or throws e (a caller callback or the
\* conversion of toolOutput throws).  No client is constructed.
CreateUnifiedAppCall ==
  /\ \E setupThrows \in BOOLEAN :
     \E e \in (IF setupThrows THEN Thrown ELSE {NoError}) :
       /\ setupThrows => windowOpenai
       /\ adapterCall' = [NoAdapterCall EXCEPT
                           !.op = "createUnifiedApp",
                           !.hostThrew = setupThrows,
                           !.raised = e,
                           !.outcome = "returned",
                           !.value = createUnifiedApp(windowOpenai, setupThrows, e)]
  /\ UNCHANGED << bindingVars, mcpClientCalls, construction, serverVars >>

\* ------------------------------------------- calls on a connected binding

\* The binding after a successful connection, nothing else done yet: on the
\* first host the state MountEffectsOpenAI leaves with outcome "ok", off it
\* the state ConnectSettles leaves with outcome "ok".
InitAdapter ==
  /\ windowOpenai \in BOOLEAN
  /\ openai \in (IF windowOpenai THEN OpenAIGlobals ELSE {AbsentGlobals})
  /\ hostWidget = UndefV
  /\ hostVaries = "state"
  /\ openaiWidgetProps = IF windowOpenai THEN hostWidget ELSE WidgetV(UndefV)
  /\ subscribed = windowOpenai
  /\ phase = "ready"
  /\ mounted = TRUE
  /\ hs = IF windowOpenai THEN "none" ELSE "connected"
  /\ platformRef = detectPlatform(windowOpenai)
  /\ unifiedApp = IF windowOpenai THEN "openai" ELSE "mcp"
  /\ isConnected = TRUE
  /\ error = NoError
  /\ reportedCtx \in (IF windowOpenai THEN {NoReport} ELSE MCPContexts)
  /\ pushedCtx = NoPush
  /\ hostContext = IF windowOpenai THEN OpenAIHostContext(openai)
                   ELSE IF reportedCtx = UndefCtx THEN UndefCtx
                   ELSE ConnectCtx(reportedCtx)
  /\ localWidgetState = SyncWidgetState(platformRef, NullV, openai.widgetState, NullV)
  /\ openaiWidgetState = openai.widgetState
  /\ openaiToolOutput = openai.toolOutput
  /\ openaiTheme = openai.theme
  /\ hostCalls = NoHostCalls
  /\ adapterCalls = 0
  /\ mcpClientCalls = IF windowOpenai THEN << >> ELSE << "connect", "getHostContext" >>
  /\ nCalls = 0
  /\ lastCall = NoCall
  /\ localSrc = SyncSrc(NullV, openai.widgetState, "init", "mount")
  /\ thrown = NoError
  /\ failedAt = "none"
  /\ optionsRef = "A"
  /\ opts = "A"
  /\ nClients = IF windowOpenai THEN 0 ELSE 1
  /\ handlers = IF windowOpenai THEN {} ELSE Slots
  /\ lastDelivery = NoDelivery
  /\ adapterCall = NoAdapterCall
  /\ construction = NoConstruction
  /\ ServerInit

NextAdapter ==
  \/ OpenAIAdapterCall
  \/ MCPAdapterCall
  \/ DetectPlatformCall
  \/ CreateUnifiedAppCall

SpecAdapter == InitAdapter /\ [][NextAdapter]_vars

\* ------------------------------------------------ the props of the binding

\* window.openai appears after the render that detected the platform
LateOpenAI ==
  /\ ~windowOpenai
  /\ windowOpenai' = TRUE
  /\ \E ws \in HostWidgetStates, to \in ToolOutputs :
       openai' = [widgetState |-> ws, toolOutput |-> to, theme |-> "light"]
  /\ hostWidget' \in Widgets
  /\ UNCHANGED << hostVaries, hookVars, phase, mounted, hs, platformRef, connVars,
                  localWidgetState, callVars, mcpClientCalls, localSrc, failVars,
                  optVars, clientVars, adapterCall, construction, serverVars >>

\* The state after the first render, with a first host that holds any
\* toolOutput and widget and changes these two in its events.
InitGlobal ==
  /\ windowOpenai \in BOOLEAN
  /\ openai \in (IF windowOpenai
                 THEN [widgetState : {NullV}, toolOutput : ToolOutputs, theme : {"light"}]
                 ELSE {AbsentGlobals})
  /\ hostWidget \in (IF windowOpenai THEN Widgets ELSE {UndefV})
  /\ hostVaries = "props"
  /\ openaiWidgetProps = WidgetV(UndefV)
  /\ subscribed = FALSE
  /\ phase = "rendered"
  /\ mounted = TRUE
  /\ hs = "none"
  /\ platformRef = detectPlatform(windowOpenai)
  /\ unifiedApp = NoApp
  /\ isConnected = FALSE
  /\ error = NoError
  /\ hostContext = UndefCtx
  /\ localWidgetState = NullV
  /\ openaiWidgetState = NullV
  /\ openaiToolOutput = UndefV
  /\ openaiTheme = "light"
  /\ hostCalls = NoHostCalls
  /\ adapterCalls = 0
  /\ mcpClientCalls = << >>
  /\ nCalls = 0
  /\ lastCall = NoCall
  /\ localSrc = "init"
  /\ thrown = NoError
  /\ failedAt = "none"
  /\ optionsRef = "A"
  /\ opts = "none"
  /\ nClients = 0
  /\ handlers = {}
  /\ lastDelivery = NoDelivery
  /\ reportedCtx = NoReport
  /\ pushedCtx = NoPush
  /\ adapterCall = NoAdapterCall
  /\ construction = NoConstruction
  /\ ServerInit

NextGlobal ==
  \/ MountEffectsOpenAI
  \/ MountEffectsMCP
  \/ GlobalsChanged
  \/ LateOpenAI
  \/ Unmount

SpecGlobal == InitGlobal /\ [][NextGlobal]_vars

\* ------------------------------------ constructing the first-host adapter

Notification(cb, arg) == [cb |-> cb, arg |-> arg]

\* The callbacks createOpenAIAdapter invokes before it returns (lines
\* 226-245), in order, when none of them throws: `given` are the callbacks
\* present in its options, o the globals, toolOutput and toolInput the two
\* globals as JavaScript values.
InitialNotifications_resultFirst(given, o, toolOutput, toolInput) ==
  (IF "onToolResult" \in given /\ Truthy(toolOutput)
   THEN << Notification("onToolResult", convertOpenAIToolOutput(toolOutput)) >>
   ELSE << >>)
  \o (IF "onHostContextChanged" \in given
      THEN << Notification("onHostContextChanged", OpenAIHostContext(o)) >>
      ELSE << >>)
  \o (IF "onToolInput" \in given /\ Truthy(toolInput)
      THEN << Notification("onToolInput", toolInput) >>
      ELSE << >>)
InitialNotifications(given, o, toolOutput, toolInput) ==
  (IF "onHostContextChanged" \in given
   THEN << Notification("onHostContextChanged", OpenAIHostContext(o)) >>
   ELSE << >>)
  \o (IF "onToolResult" \in given /\ Truthy(toolOutput)
      THEN << Notification("onToolResult", convertOpenAIToolOutput(toolOutput)) >>
      ELSE << >>)
  \o (IF "onToolInput" \in given /\ Truthy(toolInput)
      THEN << Notification("onToolInput", toolInput) >>
      ELSE << >>)

\* The caller invokes createOpenAIAdapter(options) on the first host, with
\* any subset of the three callbacks and any toolOutput and toolInput; the
\* callback at position throwsAt throws (0: none does), which ends the
\* construction after the listener was registered (line 224).
CreateOpenAIAdapterCall ==
  /\ windowOpenai
  /\ construction.made = "none"
  /\ \E given \in SUBSET Callbacks, to \in HostResults, ti \in ToolInputs :
       LET all == InitialNotifications(given, openai, to, ti) IN
       \E throwsAt \in 0..Len(all) :
         LET delivered == IF throwsAt = 0 THEN all ELSE SubSeq(all, 1, throwsAt) IN
         construction' = [made |-> IF throwsAt = 0 THEN "returned" ELSE "threw",
                          given |-> given, toolOutput |-> to, toolInput |-> ti,
                          ctx |-> OpenAIHostContext(openai),
                          notified |-> delivered, initial |-> Len(delivered),
                          events |-> 0]
  /\ UNCHANGED << bindingVars, mcpClientCalls, adapterCall, serverVars >>

\* The first host changes its theme and dispatches openai:set_globals; the
\* adapter's handleGlobalsChange (lines 210-222) runs.  The binding of this
\* specification has not run its effects, it has no listener.
AdapterGlobalsChanged ==
  /\ construction.made # "none"
  /\ construction.events < MaxEvents
  /\ phase = "rendered"
  /\ \E th \in Themes : openai' = [openai EXCEPT !.theme = th]
  /\ construction' =
       [construction EXCEPT
          !.events = @ + 1,
          !.notified = IF "onHostContextChanged" \in construction.given
                       THEN Append(@, Notification("onHostContextChanged",
                                                   OpenAIHostContext(openai')))
                       ELSE @]
  /\ UNCHANGED << windowOpenai, hostWidget, hostVaries, hookVars, phase, mounted, hs,
                  platformRef, connVars, localWidgetState, callVars, mcpClientCalls,
                  localSrc, failVars, optVars, clientVars, adapterCall, serverVars >>

\* the first host before the binding's effects, toolOutput and toolInput
\* being chosen by the call
InitNotify ==
  /\ Init
  /\ windowOpenai
  /\ openai.widgetState = NullV
  /\ openai.toolOutput = UndefV

NextNotify ==
  \/ CreateOpenAIAdapterCall
  \/ AdapterGlobalsChanged

SpecNotify == InitNotify /\ [][NextNotify]_vars

\* ------------------------------------------------------- the example server

bindingAndAdapterVars ==
  << bindingVars, mcpClientCalls, adapterCall, construction >>

\* createMcpServer + serverSessions.set (server.ts lines 286-295): a new
\* instance, stored under the key with lastUsed = now
NewSession(n) == [inst |-> n, expired |-> FALSE]

\* A /mcp request arrives and getOrCreateSession runs to its first await or
\* to its return: an expired session is closed (the await yields, the entry
\* stays in the map), a fresh one is reused, a missing one is created.
RequestArrives(r, k) ==
  /\ reqPc[r] = "idle"
  /\ reqKey' = [reqKey EXCEPT ![r] = k]
  /\ LET existing == sessions[k] IN
     IF existing.inst # 0 /\ existing.expired
     THEN /\ closed' = closed \cup {existing.inst}
          /\ reqPc' = [reqPc EXCEPT ![r] = "closing"]
          /\ reqFound' = [reqFound EXCEPT ![r] = existing.inst]
          /\ reqInstalled' = [reqInstalled EXCEPT ![r] = 0]
          /\ UNCHANGED << sessions, nInstances >>
     ELSE IF existing.inst # 0
     THEN /\ reqPc' = [reqPc EXCEPT ![r] = "serving"]
          /\ reqFound' = [reqFound EXCEPT ![r] = 0]
          /\ reqInstalled' = [reqInstalled EXCEPT ![r] = 0]
          /\ UNCHANGED << sessions, closed, nInstances >>
     ELSE /\ nInstances < MaxInstances
          /\ nInstances' = nInstances + 1
          /\ sessions' = [sessions EXCEPT ![k] = NewSession(nInstances')]
          /\ reqPc' = [reqPc EXCEPT ![r] = "serving"]
          /\ reqFound' = [reqFound EXCEPT ![r] = 0]
          /\ reqInstalled' = [reqInstalled EXCEPT ![r] = nInstances']
          /\ UNCHANGED closed
  /\ UNCHANGED bindingAndAdapterVars

\* `await existing.server.close()` settles (line 276): the request deletes
\* the key, whatever is stored under it by now, creates an instance and
\* stores it (lines 277, 285-295).
CloseSettles(r) ==
  /\ reqPc[r] = "closing"
  /\ nInstances < MaxInstances
  /\ nInstances' = nInstances + 1
  /\ sessions' = [sessions EXCEPT ![reqKey[r]] = NewSession(nInstances')]
  /\ reqInstalled' = [reqInstalled EXCEPT ![r] = nInstances']
  /\ reqPc' = [reqPc EXCEPT ![r] = "serving"]
  /\ UNCHANGED << closed, reqKey, reqFound, bindingAndAdapterVars >>

\* the /mcp handler finishes with the session it got (lines 362-383)
RequestCompletes(r) ==
  /\ reqPc[r] = "serving"
  /\ reqPc' = [reqPc EXCEPT ![r] = "idle"]
  /\ UNCHANGED << sessions, closed, nInstances, reqKey, reqFound, reqInstalled,
                  bindingAndAdapterVars >>

\* time passes: the session under k has not been used for SESSION_TIMEOUT
TimePasses(k) ==
  /\ sessions[k].inst # 0
  /\ ~sessions[k].expired
  /\ sessions' = [sessions EXCEPT ![k].expired = TRUE]
  /\ UNCHANGED << closed, nInstances, reqPc, reqKey, reqFound, reqInstalled,
                  bindingAndAdapterVars >>

\* the setInterval callback (lines 299-308): every expired session is closed
\* and deleted
Cleanup ==
  /\ \E k \in Keys : sessions[k].inst # 0 /\ sessions[k].expired
  /\ closed' = closed \cup { sessions[k].inst :
                              k \in { j \in Keys : sessions[j].inst # 0
                                                    /\ sessions[j].expired } }
  /\ sessions' = [k \in Keys |->
                    IF sessions[k].inst # 0 /\ sessions[k].expired
                    THEN NoSession ELSE sessions[k]]
  /\ UNCHANGED << nInstances, reqPc, reqKey, reqFound, reqInstalled,
                  bindingAndAdapterVars >>

NextServer ==
  \/ \E r \in Reqs, k \in Keys : RequestArrives(r, k)
  \/ \E r \in Reqs : CloseSettles(r)
  \/ \E r \in Reqs : RequestCompletes(r)
  \/ \E k \in Keys : TimePasses(k)
  \/ Cleanup

\* the server starts with no session; the binding plays no part
InitServer == Init /\ ~windowOpenai

SpecServer == InitServer /\ [][NextServer]_vars

\* ------------------------------------------------------------------ claims

\* a step that is a call of setWidgetState or updateWidgetState
CallStep == nCalls' = nCalls + 1

\* a step in which the binding's listeners receive openai:set_globals
EventStep == Listening /\ openai' # openai

\* C1: on the first host, with toolOutput a non-null value T and the host's
\* widgetState null, the binding connects with widgetState = T, platform
\* "openai" and isConnected true.  Stated for the state the mount effects
\* leave when setup succeeded and no setter was called.
C1_WidgetStateFromToolOutput ==
  ( /\ phase = "ready"
    /\ windowOpenai
    /\ failedAt = "none"
    /\ nCalls = 0
    /\ openai.toolOutput.kind = "object"
    /\ openai.widgetState = NullV )
  => ( /\ localWidgetState = openai.toolOutput
       /\ Platform = "openai"
       /\ isConnected )

\* C2: every openai:set_globals event the binding receives with a non-null
\* host widgetState leaves local widgetState equal to it, whatever came
\* before; an event with a null host widgetState leaves local state unchanged.
C2_PushSetsLocal ==
  [][ EventStep =>
        IF openai'.widgetState # NullV
        THEN localWidgetState' = ValOf(openai'.widgetState)
        ELSE localWidgetState' = localWidgetState ]_vars

\* C3: after a local write, an event in which the host changed its
\* widgetState to another non-null value leaves local widgetState equal to
\* the host's value.
C3_PushWinsOverLocalWrite ==
  [][ ( /\ EventStep
        /\ localSrc = "write"
        /\ openai'.widgetState # openai.widgetState
        /\ openai'.widgetState # NullV )
      => localWidgetState' = ValOf(openai'.widgetState) ]_vars

\* C3 witness: a push replaced the value setWidgetState had written
C3_Witness ==
  /\ localSrc = "pushOverWrite"
  /\ lastCall.op = "setWidgetState"
  /\ localWidgetState # ObjV(lastCall.arg)
  /\ localWidgetState = ValOf(openai.widgetState)

\* C4: updateWidgetState(p) on an object s yields the object whose keys are
\* those of s and p, with p's value for every key of p and s's value for the
\* others, on every platform.
C4_UpdateIsShallowMerge ==
  [][ ( /\ CallStep
        /\ lastCall'.op = "updateWidgetState"
        /\ localWidgetState.kind = "object" )
      => LET s == localWidgetState.fields
             p == lastCall'.arg
             r == localWidgetState'
         IN /\ r.kind = "object"
            /\ DOMAIN r.fields = DOMAIN s \cup DOMAIN p
            /\ \A k \in DOMAIN p : r.fields[k] = p[k]
            /\ \A k \in DOMAIN s \ DOMAIN p : r.fields[k] = s[k] ]_vars

\* C4 witness: on the connected second host {a: 2, b: 1} updated with
\* {a: 1} gave {a: 1, b: 1}
C4_Witness ==
  /\ Platform = "mcp"
  /\ lastCall.op = "updateWidgetState"
  /\ lastCall.arg = [a |-> 1]
  /\ localSrc = "write"
  /\ localWidgetState = ObjV([a |-> 1, b |-> 1])

\* a step in which the mount effects of the first host run
MountStep == phase = "rendered" /\ phase' = "ready" /\ platformRef = "openai"

\* C5 as claimed: setWidgetState(s) leaves local widgetState = s, and local
\* widgetState then changes only at a local write or at an event with a
\* non-null host widgetState.
C5_LocalWriteStays ==
  [][ /\ (CallStep /\ lastCall'.op = "setWidgetState")
           => localWidgetState' = ObjV(lastCall'.arg)
      /\ (localWidgetState' # localWidgetState)
           => \/ CallStep
              \/ EventStep /\ openai'.widgetState # NullV ]_vars

\* C5 as amended: setWidgetState(s) leaves local widgetState = s on every
\* platform, connected or not, and local widgetState then changes only at a
\* local write, at an event with a non-null host widgetState, or when the
\* mount effects of the first host copy a non-null host widgetState.
C5_LocalWriteStaysAmended ==
  [][ /\ (CallStep /\ lastCall'.op = "setWidgetState")
           => localWidgetState' = ObjV(lastCall'.arg)
      /\ (localWidgetState' # localWidgetState)
           => \/ CallStep
              \/ EventStep /\ openai'.widgetState # NullV
              \/ MountStep /\ openai.widgetState # NullV ]_vars

\* C5 witness: on the first host local state holds what setWidgetState wrote
\* while the host holds another, non-null widgetState
C5_Witness ==
  /\ Listening
  /\ lastCall.op = "setWidgetState"
  /\ localSrc = "write"
  /\ localWidgetState = ObjV(lastCall.arg)
  /\ openai.widgetState # NullV
  /\ ValOf(openai.widgetState) # localWidgetState

\* C6: on the first host every call of setWidgetState / updateWidgetState
\* makes exactly one call of the host's method of the same name with the
\* same argument, also before the adapter is stored and through a setter
\* obtained before connection.
C6_EveryWriteForwarded ==
  [][ (CallStep /\ windowOpenai)
      => /\ hostCalls'.n = hostCalls.n + 1
         /\ hostCalls'.last = [op |-> lastCall'.op, arg |-> lastCall'.arg] ]_vars

\* C7: on the first host, when the host's setWidgetState / updateWidgetState
\* throws, the binding's setter returns normally and local widgetState holds
\* the value written.
C7_HostThrowNotPropagated ==
  (lastCall.hostThrew /\ localSrc = "write")
  => /\ lastCall.outcome = "returned"
     /\ lastCall.op = "setWidgetState" => localWidgetState = ObjV(lastCall.arg)

\* C8: off the first host a call of setWidgetState / updateWidgetState,
\* before or after the handshake, invokes no method of the second-host client
\* and no method of an adapter; only local widgetState changes.
C8_NoClientCallOffFirstHost ==
  [][ (CallStep /\ ~windowOpenai)
      => /\ mcpClientCalls' = mcpClientCalls
         /\ adapterCalls' = adapterCalls
         /\ hostCalls' = hostCalls
         /\ UNCHANGED << connVars, hookVars, hostVars, hs, mounted, phase >> ]_vars

\* C8 witness: a setter holding the second-host adapter was called
C8_Witness ==
  /\ ~windowOpenai
  /\ lastCall.captured = "mcp"
  /\ localSrc = "write"
  /\ mcpClientCalls = << "connect", "getHostContext" >>

\* C9 (state part): the platform returned is "openai" exactly when window.openai was
\* present at mount; otherwise, while the view is mounted, it is "mcp"
\* exactly when initialize() completed the handshake and "unknown" while the
\* handshake is pending or failed; once "mcp" it stays "mcp".
C9_PlatformState ==
  /\ (Platform = "openai") <=> windowOpenai
  /\ ~windowOpenai =>
       /\ Platform = "mcp" => hs = "connected"
       /\ (mounted /\ hs = "connected") => Platform = "mcp"
       /\ hs \in {"none", "importing", "connecting", "failed"} => Platform = "unknown"
\* C9: the relation above holds in every reachable state, and a platform
\* that is "mcp" never returns to "unknown".
C9_EffectivePlatform ==
  /\ []C9_PlatformState
  /\ [][Platform = "mcp" => Platform' = "mcp"]_vars

\* C9 witness: the handshake succeeded and the platform is "mcp"
C9_Witness ==
  /\ ~windowOpenai
  /\ hs = "connected"
  /\ Platform = "mcp"

\* a handshake that failed in the import, the construction or connect()
HandshakeFailed ==
  mounted /\ hs = "failed" /\ failedAt \in {"import", "construct", "connect"}

\* C10 as claimed: after the handshake threw or rejected with e (view
\* mounted), isConnected is false, app is null, platform is "unknown" and
\* error is e itself.
C10_ErrorIsThrownValue ==
  HandshakeFailed =>
    /\ ~isConnected
    /\ unifiedApp = NoApp
    /\ Platform = "unknown"
    /\ error = thrown

\* C10 as amended: ... and error is e itself when e is an Error, otherwise
\* a new Error with the message "Failed to connect".
C10_ErrorIsThrownOrWrapped ==
  HandshakeFailed =>
    /\ ~isConnected
    /\ unifiedApp = NoApp
    /\ Platform = "unknown"
    /\ thrown.kind = "Error" => error = thrown
    /\ thrown.kind # "Error" => error = [kind |-> "Error", msg |-> "Failed to connect"]

\* C10 witness: connect() rejected with a value that is not an Error
C10_Witness ==
  /\ HandshakeFailed
  /\ failedAt = "connect"
  /\ thrown.kind = "string"
  /\ error.msg = "Failed to connect"

\* the number of times connect() was called on a second-host client
Connects == Cardinality({ i \in DOMAIN mcpClientCalls : mcpClientCalls[i] = "connect" })

\* C11 (state part): at most one client is constructed and connect() called
\* at most once; once the handshake has passed the import, exactly once.
C11_OneClient ==
  /\ nClients <= 1
  /\ Connects <= 1
  /\ hs \in {"connecting", "connected"} => (nClients = 1 /\ Connects = 1)

\* C11: for one mounted binding off the first host the client is constructed
\* and connect() initiated exactly once, no re-render (same or changed
\* options) starts another handshake, and a failed handshake stays failed.
C11_HandshakeOnce ==
  /\ []C11_OneClient
  /\ [][(hs = "failed" => hs' = "failed")
        /\ (hs \in {"connecting", "connected", "failed"} => hs' # "importing")]_vars

\* C11 witness: the view was rendered again with other options after the
\* handshake had connected, and there is still the one client
C11_Witness ==
  /\ hs = "connected"
  /\ optionsRef # opts
  /\ nClients = 1
  /\ Connects = 1

\* C12: off the first host, all five callback slots are assigned once
\* connect() has been called, and every event the client delivered, during
\* or after connect, found its handler registered.
C12_HandlersBeforeConnect ==
  /\ Connects > 0 => Slots \subseteq handlers
  /\ lastDelivery.slot # "none" => lastDelivery.handled

\* C12 witness: a host-context-changed event arrived while connect() was
\* pending and its handler stored the context
C12_Witness ==
  /\ hs = "connecting"
  /\ lastDelivery.slot = "onhostcontextchanged"
  /\ lastDelivery.handled
  /\ hostContext # UndefCtx

\* C13: once isConnected is true, then as long as the view stays mounted
\* isConnected stays true, app stays the same non-null adapter and error
\* stays null, whatever the host pushes, the client delivers or the setters
\* write.
C13_ConnectedIsTerminal ==
  [][(isConnected /\ mounted') =>
       /\ isConnected'
       /\ unifiedApp # NoApp
       /\ unifiedApp' = unifiedApp
       /\ error = NoError
       /\ error' = NoError]_vars

\* C13 witness: connected off the first host, the client reported an error
\* through onerror, and the view is still mounted and connected
C13_Witness ==
  /\ isConnected
  /\ mounted
  /\ unifiedApp = "mcp"
  /\ lastDelivery.slot = "onerror"
  /\ lastDelivery.handled

\* C14: after the owning view unmounted, a client that was constructed has
\* been closed.
C14_ClosedOnUnmount ==
  (phase = "unmounted" /\ nClients > 0) => "close" \in Range(mcpClientCalls)

\* a step that is a call of an adapter operation or of detectPlatform
AdapterStep == adapterCall' # adapterCall

\* C15 (state part): on the second-host adapter each of the five operations
\* fails with the message "<operation> is not supported on MCP platform" and
\* has not invoked the client.
C15_FailsWithFixedMessage ==
  ( /\ adapterCall.adapter = "mcp"
    /\ adapterCall.op \in {"uploadFile", "getFileDownloadUrl", "share", "callCompletion",
                           "streamCompletion"} ) =>
    /\ adapterCall.outcome = "threw"
    /\ adapterCall.raised.kind = "Error"
    /\ adapterCall.raised.msg = adapterCall.op \o " is not supported on MCP platform"
    /\ adapterCall.hostCalled = "none"

\* C15: on the second-host adapter, uploadFile, getFileDownloadUrl, share,
\* callCompletion and streamCompletion fail on every call with the fixed
\* message, invoke no method of the client and change no state.
C15_UnsupportedOnMCP ==
  /\ []C15_FailsWithFixedMessage
  /\ [][( /\ AdapterStep
          /\ adapterCall'.adapter = "mcp"
          /\ adapterCall'.op \in {"uploadFile", "getFileDownloadUrl", "share",
                                  "callCompletion", "streamCompletion"} ) =>
          UNCHANGED << bindingVars, mcpClientCalls >>]_vars

\* C15 witness: streamCompletion was called on the connected second-host
\* adapter and threw
C15_Witness ==
  /\ Platform = "mcp"
  /\ adapterCall.adapter = "mcp"
  /\ adapterCall.op = "streamCompletion"
  /\ adapterCall.outcome = "threw"

\* C16 (state part): the six no-ops return without error and without a
\* client call; getWidgetState returns null, getWidgetProps and
\* getToolResponseMetadata return {}, also after no-ops were called.
C16_NoOpsAndGetters ==
  adapterCall.adapter = "mcp" =>
    /\ adapterCall.op \in {"setWidgetState", "updateWidgetState", "requestDisplayMode",
                           "requestClose", "notifyIntrinsicHeight", "setOpenInAppUrl"} =>
         /\ adapterCall.outcome = "returned"
         /\ adapterCall.raised = NoError
         /\ adapterCall.hostCalled = "none"
    /\ adapterCall.op = "getWidgetState" =>
         (adapterCall.outcome = "returned" /\ adapterCall.value = JNull)
    /\ adapterCall.op \in {"getWidgetProps", "getToolResponseMetadata"} =>
         (adapterCall.outcome = "returned" /\ adapterCall.value = JObj(<< >>))

\* C16: on the second-host adapter, setWidgetState, updateWidgetState,
\* requestDisplayMode, requestClose, notifyIntrinsicHeight and setOpenInAppUrl
\* complete without error and without invoking the client, and after any
\* sequence of them getWidgetState returns null and getWidgetProps and
\* getToolResponseMetadata return {}.
C16_MCPNoOps ==
  /\ []C16_NoOpsAndGetters
  /\ [][( /\ AdapterStep
          /\ adapterCall'.adapter = "mcp"
          /\ adapterCall'.op \in {"setWidgetState", "updateWidgetState",
                                  "requestDisplayMode", "requestClose",
                                  "notifyIntrinsicHeight", "setOpenInAppUrl",
                                  "getWidgetState", "getWidgetProps",
                                  "getToolResponseMetadata"} ) =>
          mcpClientCalls' = mcpClientCalls]_vars

\* C16 witness: getWidgetState returned null after a no-op write
C16_Witness ==
  /\ adapterCall.adapter = "mcp"
  /\ adapterCall.op = "getWidgetState"
  /\ adapterCall.afterNoOp
  /\ adapterCall.value = JNull

\* C17: on the first-host adapter (created with an onError callback), for
\* every operation other than sendMessage and openLink, when the host method
\* throws or rejects with e, onError is invoked with e and e is rethrown.
C17_OnErrorThenRethrow ==
  ( /\ adapterCall.adapter = "openai"
    /\ adapterCall.op \notin {"sendMessage", "openLink"}
    /\ adapterCall.hostThrew
    /\ adapterCall.onErrorGiven ) =>
    /\ adapterCall.onErrors = << adapterCall.raised >>
    /\ adapterCall.outcome = "threw"

\* C18: on the first-host adapter (created with an onError callback),
\* sendMessage and openLink never reject because the host failed: when the
\* host method throws or rejects, onError is invoked once with the error and
\* the call resolves to {isError: true}; when the host succeeds (or is not
\* called) the call resolves to {isError: false} and onError is not invoked.
C18_FlagInsteadOfReject ==
  ( /\ adapterCall.adapter = "openai"
    /\ adapterCall.op \in {"sendMessage", "openLink"} ) =>
    /\ adapterCall.outcome = "returned"
    /\ adapterCall.hostThrew =>
         /\ adapterCall.value = JObj(<< << "isError", JBool(TRUE) >> >>)
         /\ adapterCall.onErrorGiven => adapterCall.onErrors = << adapterCall.raised >>
    /\ ~adapterCall.hostThrew =>
         /\ adapterCall.value = JObj(<< << "isError", JBool(FALSE) >> >>)
         /\ adapterCall.onErrors = << >>

\* C18 witness: sendFollowUpMessage rejected, onError got the error and
\* sendMessage resolved with isError true
C18_Witness ==
  /\ adapterCall.adapter = "openai"
  /\ adapterCall.op = "sendMessage"
  /\ adapterCall.hostThrew
  /\ adapterCall.onErrors = << adapterCall.raised >>
  /\ adapterCall.outcome = "returned"

\* C19: the tool-result conversion (seen through callServerTool, which
\* applies it to what callTool resolved with) picks the first matching rule:
\* an object whose content is an array is returned unchanged; otherwise an
\* object with a text property gives one text part holding String(text);
\* otherwise an object gives one text part holding its JSON serialization;
\* otherwise one text part holding String(input).  {text: "42"} and
\* {content: [{type: "text", text: "42"}]} both give a first text part "42".
C19_ConversionPrecedence ==
  ( /\ adapterCall.adapter = "openai"
    /\ adapterCall.op = "callServerTool"
    /\ ~adapterCall.hostThrew ) =>
    LET in == adapterCall.input
        out == adapterCall.value
        isObject == in.t \in {"object", "array"}
        has(k) == in.t = "object" /\ \E i \in DOMAIN in.props : in.props[i][1] = k
        prop(k) == in.props[CHOOSE i \in DOMAIN in.props : in.props[i][1] = k][2]
        onePart(str) ==
          [t |-> "object",
           props |-> << << "content",
                           [t |-> "array",
                            items |-> << [t |-> "object",
                                          props |-> << << "type", JStr("text") >>,
                                                       << "text", JStr(str) >> >>] >>] >> >>]
        firstText == Get(Get(out, "content").items[1], "text")
    IN  /\ adapterCall.outcome = "returned"
        /\ IF isObject /\ has("content") /\ prop("content").t = "array" THEN out = in
           ELSE IF isObject /\ has("text") THEN out = onePart(JSString(prop("text")))
           ELSE IF isObject THEN out = onePart(Stringify(in))
           ELSE out = onePart(JSString(in))
        /\ in = JObj(<< << "text", JStr("42") >> >>) => firstText = JStr("42")
        /\ in = JObj(<< << "content", JArr(<< TextPart("42") >>) >> >>) =>
             firstText = JStr("42")

\* C19 witness: callTool resolved with an object that has a text property
\* and, after it, a content array, and the object came back unchanged
C19_Witness ==
  /\ adapterCall.op = "callServerTool"
  /\ adapterCall.input =
       JObj(<< << "text", JStr("t") >>, << "content", JArr(<< TextPart("c") >>) >> >>)
  /\ adapterCall.value = adapterCall.input

\* C20 (state part): detectPlatform() returned "openai" exactly when
\* window.openai is present and "unknown" otherwise, never "mcp".
C20_DetectResult ==
  adapterCall.op = "detectPlatform" =>
    /\ adapterCall.value = (IF windowOpenai THEN JStr("openai") ELSE JStr("unknown"))
    /\ adapterCall.value # JStr("mcp")

\* C20: detectPlatform() returns "openai" exactly when window.openai is
\* present at the time of the call and "unknown" otherwise, never "mcp", also
\* after a second-host handshake succeeded, and it changes no state.
C20_DetectPlatform ==
  /\ []C20_DetectResult
  /\ [][(AdapterStep /\ adapterCall'.op = "detectPlatform") =>
          UNCHANGED << bindingVars, mcpClientCalls >>]_vars

\* C20 witness: called after the second-host handshake succeeded, with the
\* binding reporting "mcp", detectPlatform() returned "unknown"
C20_Witness ==
  /\ Platform = "mcp"
  /\ adapterCall.op = "detectPlatform"
  /\ adapterCall.value = JStr("unknown")

\* C21 (state part): what createUnifiedApp returned is one of three shapes:
\* on the first host with setup succeeding, a non-null app, isConnected
\* true, error null, platform "openai"; on the first host with setup
\* throwing e, app null, isConnected false, error e, platform "openai", and
\* the call still returned; otherwise app null, isConnected false, error
\* null, platform "unknown".
C21_ResultShape ==
  adapterCall.op = "createUnifiedApp" =>
    /\ adapterCall.outcome = "returned"
    /\ (windowOpenai /\ ~adapterCall.hostThrew) =>
         adapterCall.value = [app |-> "openai", isConnected |-> TRUE,
                              error |-> NoError, platform |-> "openai"]
    /\ (windowOpenai /\ adapterCall.hostThrew) =>
         adapterCall.value = [app |-> NoApp, isConnected |-> FALSE,
                              error |-> adapterCall.raised, platform |-> "openai"]
    /\ ~windowOpenai =>
         adapterCall.value = [app |-> NoApp, isConnected |-> FALSE,
                              error |-> NoError, platform |-> "unknown"]

\* C21: createUnifiedApp returns one of exactly the three result shapes, an
\* exception of the adapter setup is returned and not propagated, and off the
\* first host no connection is initiated.
C21_CreateUnifiedApp ==
  /\ []C21_ResultShape
  /\ [][(AdapterStep /\ adapterCall'.op = "createUnifiedApp") =>
          UNCHANGED << bindingVars, mcpClientCalls >>]_vars

\* C21 witness: on the first host the adapter setup threw a value and
\* createUnifiedApp returned it as error
C21_Witness ==
  /\ windowOpenai
  /\ adapterCall.op = "createUnifiedApp"
  /\ adapterCall.hostThrew
  /\ adapterCall.value.error = adapterCall.raised
  /\ adapterCall.value.platform = "openai"

\* the context C22 describes: what the client reported at connect time (the
\* fields of it the binding keeps) with the pushes received so far merged
\* over it
C22_ClaimedContext ==
  LET reported == IF reportedCtx = UndefCtx THEN UndefCtx ELSE ConnectCtx(reportedCtx)
  IN  IF reportedCtx = UndefCtx /\ pushedCtx = NoPush THEN UndefCtx
      ELSE MCPCtx(MergeField(reported, pushedCtx, "theme"),
                  MergeField(reported, pushedCtx, "maxHeight"))

\* C22: off the first host, at every point after a successful handshake
\* (view mounted) hostContext equals the context the client reported at
\* connect time with every push received so far shallow-merged over it in
\* arrival order, pushes that arrived while connect was pending included.
C22_ContextIsReportPlusPushes ==
  (mounted /\ hs = "connected" /\ reportedCtx # NoReport) =>
    hostContext = C22_ClaimedContext

\* C23 (state part): on the first host hostContext is undefined whenever
\* isConnected is false.
C23_UndefinedUntilConnected ==
  (platformRef = "openai" /\ ~isConnected) => hostContext = UndefCtx

\* C23: on the first host hostContext is derived only once isConnected is
\* true: it is undefined in every state with isConnected false (before the
\* connection, after a failed adapter setup), and after every globals-changed
\* event received while connected it is the record of the host's current
\* values.
C23_ContextOnlyWhenConnected ==
  /\ []C23_UndefinedUntilConnected
  /\ [][(EventStep /\ isConnected /\ platformRef = "openai") =>
          hostContext' = OpenAIHostContext(openai')]_vars

\* C24: off the first host (as detected by the first render) initialProps is
\* undefined and widgetProps is {}, whatever events arrive and even when
\* window.openai appears later; on the first host initialProps is the
\* host's toolOutput and widgetProps the host's widget.props as of the last
\* globals-changed event or the mount, {} when widget.props is undefined or
\* null.  Stated for a mounted binding whose mount effects have run.
C24_HostProps ==
  IF hostWidget.kind = "widget" /\ hostWidget.props.kind = "object"
  THEN hostWidget.props ELSE ObjV(<< >>)

C24_LateHost ==
  /\ phase = "ready"
  /\ platformRef # "openai"
  /\ subscribed
  /\ openaiToolOutput.kind = "object"
  /\ openaiWidgetProps = WidgetV(ObjV([a |-> 2, b |-> 1]))

\* C25: on the first host with toolOutput and widgetState null or undefined,
\* mount effects in which nothing throws leave isConnected = true, platform
\* "openai" and widgetState null; a null widgetState of the binding then
\* changes only at a call of a setter or at an event in which the host's
\* widgetState is non-null; with a non-null widgetState at mount and
\* toolOutput undefined the mount effects leave widgetState equal to the
\* host's widgetState.
C25_NullStaysNull ==
  /\ [][ ( /\ MountStep
           /\ openai.widgetState = NullV
           /\ openai.toolOutput \in {NullV, UndefV}
           /\ failedAt' = "none" )
         => /\ isConnected'
            /\ Platform' = "openai"
            /\ localWidgetState = NullV => localWidgetState' = NullV ]_vars
  /\ [][ ( /\ platformRef = "openai"
           /\ phase = "ready"
           /\ localWidgetState = NullV
           /\ localWidgetState' # NullV )
         => \/ CallStep
            \/ EventStep /\ openai'.widgetState # NullV ]_vars
  /\ [][ ( /\ MountStep
           /\ openai.widgetState # NullV
           /\ openai.toolOutput = UndefV )
         => localWidgetState' = ValOf(openai.widgetState) ]_vars

\* C25 witness: connected on the first host with both globals null, no
\* write yet, widgetState null
C25_Witness ==
  /\ phase = "ready"
  /\ Platform = "openai"
  /\ isConnected
  /\ openai.toolOutput = NullV
  /\ openai.widgetState = NullV
  /\ nCalls = 0
  /\ localWidgetState = NullV

\* C26: when the client delivers an event, the callback its handler calls is
\* the one of the options of the most recent render.
C26_CallbacksNeverStale ==
  [][ (ClientDelivers /\ lastDelivery'.opts # "none")
      => lastDelivery'.opts = optionsRef' ]_vars

\* C27: isConnected is true exactly when app is non-null, and a non-null
\* error implies isConnected false and app null.
C27_ConnectedIffApp ==
  /\ isConnected <=> unifiedApp # NoApp
  /\ error # NoError => (~isConnected /\ unifiedApp = NoApp)

\* C28: after the unmount no step changes what the binding returned (app,
\* isConnected, error, hostContext, widgetState, the tracked globals), and
\* a host-context push the client delivers does not reach the caller's
\* onHostContextChanged.
C28_NothingAfterUnmount ==
  [][ ~mounted =>
        /\ UNCHANGED << unifiedApp, isConnected, error, hostContext, localWidgetState,
                        openaiWidgetState, openaiToolOutput, openaiTheme,
                        openaiWidgetProps >>
        /\ (ClientDelivers /\ lastDelivery'.slot = "onhostcontextchanged")
             => lastDelivery'.opts = "none" ]_vars

\* C28 witness: unmounted before connect() settled, the handshake then
\* resolved and the client delivered a host-context push that was dropped
C28_Witness ==
  /\ ~mounted
  /\ hs = "connected"
  /\ unifiedApp = NoApp
  /\ ~isConnected
  /\ lastDelivery = [slot |-> "onhostcontextchanged", handled |-> TRUE, opts |-> "none"]

\* after the unmount the first host changed its theme and hostContext kept
\* the old one
C28_StaleFirstHostContext ==
  /\ ~mounted
  /\ platformRef = "openai"
  /\ hostContext # UndefCtx
  /\ hostContext # OpenAIHostContext(openai)

\* C29: a construction of the first-host adapter that returned has invoked,
\* of the callbacks it was given and in this order: onHostContextChanged
\* once with the host's context, onToolResult once with the converted
\* toolOutput iff toolOutput is truthy, onToolInput once with toolInput iff
\* toolInput is truthy; every later globals-changed event adds exactly one
\* onHostContextChanged with the context of that time.
C29_NotificationOrder ==
  construction.made = "returned" =>
    LET c == construction
        first == SubSeq(c.notified, 1, c.initial)
        rest == SubSeq(c.notified, c.initial + 1, Len(c.notified))
        at(cb) == { i \in 1..Len(first) : first[i].cb = cb }
        ctxAt == at("onHostContextChanged")
        resultAt == at("onToolResult")
        inputAt == at("onToolInput")
    IN  /\ "onHostContextChanged" \in c.given =>
             /\ ctxAt = {1}
             /\ first[1].arg = c.ctx
        /\ "onHostContextChanged" \notin c.given => ctxAt = {}
        /\ Cardinality(resultAt) =
             IF "onToolResult" \in c.given /\ Truthy(c.toolOutput) THEN 1 ELSE 0
        /\ \A i \in resultAt :
             /\ first[i].arg = convertOpenAIToolOutput(c.toolOutput)
             /\ \A j \in ctxAt : j < i
        /\ Cardinality(inputAt) =
             IF "onToolInput" \in c.given /\ Truthy(c.toolInput) THEN 1 ELSE 0
        /\ \A i \in inputAt :
             /\ first[i].arg = c.toolInput
             /\ \A j \in ctxAt \cup resultAt : j < i
        /\ Len(rest) = IF "onHostContextChanged" \in c.given THEN c.events ELSE 0
        /\ \A i \in 1..Len(rest) : rest[i].cb = "onHostContextChanged"
        /\ Len(rest) > 0 => rest[Len(rest)].arg = OpenAIHostContext(openai)

\* C29 witness: all three callbacks given, an object as toolOutput and a
\* truthy toolInput: three initial notifications, then one per event
C29_Witness ==
  /\ construction.made = "returned"
  /\ construction.given = Callbacks
  /\ construction.toolOutput.t = "object"
  /\ Truthy(construction.toolInput)
  /\ construction.initial = 3
  /\ construction.events >= 1
  /\ Len(construction.notified) = 3 + construction.events

\* C30: every instance the example server created is stored in the session
\* map or has been closed, and two requests that found the same expired
\* session have not both installed a new instance.
C30_NoOrphanedInstance ==
  /\ \A i \in 1..nInstances :
       i \in closed \/ \E k \in Keys : sessions[k].inst = i
  /\ \A r1, r2 \in Reqs :
       (r1 # r2 /\ reqFound[r1] # 0 /\ reqFound[r1] = reqFound[r2])
         => ~(reqInstalled[r1] # 0 /\ reqInstalled[r2] # 0)

====
